---------------------------- MODULE Spec2Model ----------------------------
(***************************************************************************)
(* A model of music21/expressions.py: the ornament realization engine      *)
(* (Ornament.realize and its overrides in GeneralMordent, Trill, Turn,     *)
(* GeneralAppoggiatura and Tremolo), the driver realizeOrnaments, the     *)
(* numberOfMarks setters of Tremolo and TremoloSpanner, getSize of the     *)
(* mordent, trill and turn classes, and the accidental-name setters,       *)
(* resolveOrnamentalPitches and updateAccidentalDisplay of one ornament.   *)
(*                                                                         *)
(* Quarter lengths are exact rationals <<numerator, denominator>> in       *)
(* lowest terms with a positive denominator.  An optional value (None in   *)
(* the source) is a sequence of length 0 or 1.                             *)
(***************************************************************************)
EXTENDS Integers, Sequences, FiniteSets, TLC

VARIABLES call, ro, trem, orn

vars == <<call, ro, trem, orn>>

---------------------------------------------------------------------------
(* Bounds of the model.                                                    *)

\* event durations are n/d quarter lengths, n in 0..MaxDurNum, d in DurDens
MaxDurNum == 4
\* Tremolo ornaments handed to realize carry 0..MaxMarks marks
MaxMarks == 3
\* realizeOrnaments is driven with every expression list of length 0..MaxExprs
MaxExprs == 2
\* events handed to realizeOrnaments last n/2 quarter lengths, n in 0..MaxRODurNum
MaxRODurNum == 1
\* realizeOrnaments is also driven with LoopBuster-1+k non-realizable expressions, k in 0..MaxOverCeiling
MaxOverCeiling == 2
\* integers assigned to numberOfMarks lie in -MaxMarkInput .. MaxNumberOfMarks + MaxMarkInput
MaxMarkInput == 2
\* key signatures have up to MaxSharps sharps or MaxFlats flats
MaxSharps == 5
MaxFlats == 1

---------------------------------------------------------------------------
(* Exact rational arithmetic (fractions.Fraction, opFrac).                 *)

Abs(x) == IF x < 0 THEN -x ELSE x

RECURSIVE GCD(_, _)
GCD(a, b) == IF b = 0 THEN a ELSE GCD(b, a % b)

\* a pair <<n, d>>, d # 0, brought to lowest terms with a positive denominator
LowestTerms[p \in Int \X Int] ==
    LET g == GCD(Abs(p[1]), Abs(p[2]))
        s == IF p[2] < 0 THEN -1 ELSE 1
    IN  <<(s * p[1]) \div g, (s * p[2]) \div g>>

\* the fraction n/d
Frac(n, d) == LowestTerms[<<n, d>>]

Zero == Frac(0, 1)
FInt(k) == Frac(k, 1)
FAdd(x, y) == Frac(x[1] * y[2] + y[1] * x[2], x[2] * y[2])
FSub(x, y) == Frac(x[1] * y[2] - y[1] * x[2], x[2] * y[2])
FMul(x, y) == Frac(x[1] * y[1], x[2] * y[2])
\* y # Zero
FDiv(x, y) == Frac(x[1] * y[2], x[2] * y[1])
FLt(x, y) == x[1] * y[2] < y[1] * x[2]
FLe(x, y) == x[1] * y[2] <= y[1] * x[2]
FScale(k, x) == FMul(FInt(k), x)
\* int(x): truncation toward zero
FTrunc(x) == IF x[1] >= 0 THEN x[1] \div x[2] ELSE -((-x[1]) \div x[2])

RECURSIVE FSum(_)
FSum(s) == IF s = <<>> THEN Zero ELSE FAdd(Head(s), FSum(Tail(s)))

\* 2 ** (-k), k >= 0
RECURSIVE Pow2(_)
Pow2(k) == IF k = 0 THEN 1 ELSE 2 * Pow2(k - 1)
TwoToMinus(k) == Frac(1, Pow2(k))

---------------------------------------------------------------------------
(* Pitches, intervals and key signatures: the collaborators of section 6   *)
(* of the specification (pitch.Pitch, interval.Interval, key.KeySignature).*)
(* A pitch is [step, octave, acc]: step 0..6 is C..B, acc is <<>> for no   *)
(* accidental and <<alter>> for an accidental of that many semitones.      *)

None == <<>>
Some(x) == <<x>>
IsNone(o) == o = <<>>

StepSemitones == <<0, 2, 4, 5, 7, 9, 11>>

Pitch(step, octave, acc) == [step |-> step, octave |-> octave, acc |-> acc]

Alter(p) == IF IsNone(p.acc) THEN 0 ELSE p.acc[1]
\* pitch space (midi number) and diatonic note number
PitchSpace(p) == 12 * (p.octave + 1) + StepSemitones[p.step + 1] + Alter(p)
DiatonicNum(p) == 7 * p.octave + p.step
\* Pitch.nameWithOctave: a natural sign and no accidental read the same
NameWithOctave(p) == <<p.step, Alter(p), p.octave>>

\* an interval is [generic, semitones], both signed
Interval(p1, p2) ==
    [generic |-> DiatonicNum(p2) - DiatonicNum(p1),
     semitones |-> PitchSpace(p2) - PitchSpace(p1)]

IntervalReverse(iv) == [generic |-> -iv.generic, semitones |-> -iv.semitones]

\* GenericInterval(2) / GenericInterval(-2) applied to a pitch without accidental
GenericTranspose(p, steps) ==
    LET d == DiatonicNum(p) + steps
    IN  Pitch(d % 7, d \div 7, None)

\* Pitch.transpose(interval): the step moves diatonically, the accidental
\* makes up the semitones; no accidental is attached when none is needed
TransposePitch(p, iv) ==
    LET nat == GenericTranspose(Pitch(p.step, p.octave, None), iv.generic)
        fix == PitchSpace(p) + iv.semitones - PitchSpace(nat)
    IN  [nat EXCEPT !.acc = IF fix = 0 THEN None ELSE Some(fix)]

MinorSecond == [generic |-> 1, semitones |-> 1]
MajorSecond == [generic |-> 1, semitones |-> 2]

\* pitch.Accidental(name)
AccidentalNames == {"sharp", "flat", "natural"}
Accidental(name) ==
    CASE name = "sharp" -> Some(1)
      [] name = "flat" -> Some(-1)
      [] OTHER -> Some(0)

\* key.KeySignature(sharps).accidentalByStep(step): None for a natural step
SharpOrder == <<3, 0, 4, 1, 5, 2, 6>>
FlatOrder == <<6, 2, 5, 1, 4, 0, 3>>
AccidentalByStep(sharps, step) ==
    IF \E i \in 1..7 : i <= sharps /\ SharpOrder[i] = step THEN Some(1)
    ELSE IF \E i \in 1..7 : i <= -sharps /\ FlatOrder[i] = step THEN Some(-1)
    ELSE None

---------------------------------------------------------------------------
(* Expressions and events.                                                 *)
(* An expression is a record; id tells the objects of one expression list  *)
(* apart.  An event (note.Note, or a rest when pitched is FALSE) is        *)
(* [dur, pitched, pitch, exprs, ctxKey]: ctxKey is the key signature that  *)
(* getContextByClass finds, None when there is none.                       *)

MordentKinds ==
    {"GeneralMordent", "Mordent", "HalfStepMordent", "WholeStepMordent",
     "InvertedMordent", "HalfStepInvertedMordent", "WholeStepInvertedMordent"}
TrillKinds == {"Trill", "HalfStepTrill", "WholeStepTrill", "Shake"}
TurnKinds == {"Turn", "InvertedTurn"}
AppoggiaturaKinds ==
    {"GeneralAppoggiatura", "Appoggiatura", "HalfStepAppoggiatura",
     "WholeStepAppoggiatura", "InvertedAppoggiatura",
     "HalfStepInvertedAppoggiatura", "WholeStepInvertedAppoggiatura"}
\* classes whose instances have a realize method
OrnamentKinds ==
    MordentKinds \cup TrillKinds \cup TurnKinds \cup AppoggiaturaKinds
        \cup {"Tremolo", "Schleifer"}

NoDelay == [kind |-> "NO_DELAY", ql |-> Zero]
DefaultDelay == [kind |-> "DEFAULT_DELAY", ql |-> Zero]
DelayQL(q) == [kind |-> "ql", ql |-> q]

\* Turn.delay setter: a float or Fraction <= 0 becomes NO_DELAY
TurnDelaySetter(newDelay) ==
    IF newDelay.kind = "ql" /\ FLe(newDelay.ql, Zero) THEN NoDelay ELSE newDelay

\* the quarterLength each class sets in __init__
DefaultQuarterLength(kind) ==
    IF kind \in {"Shake", "Schleifer"} \cup TurnKinds THEN Frac(1, 4) ELSE Frac(1, 8)

\* a freshly constructed expression of class kind
Expression(kind, id) ==
    [id |-> id, kind |-> kind,
     quarterLength |-> DefaultQuarterLength(kind),
     autoScale |-> TRUE,
     accidentalName |-> "", upperAccidentalName |-> "", lowerAccidentalName |-> "",
     nachschlag |-> FALSE,
     delay |-> TurnDelaySetter(NoDelay),
     numberOfMarks |-> 3]

Event(dur, pitched, pitch, exprs, ctxKey) ==
    [dur |-> dur, pitched |-> pitched, pitch |-> pitch, exprs |-> exprs,
     ctxKey |-> ctxKey]

\* the values expressions and events are made of
Fractions == Int \X Int
Pitches == [step : 0..6, octave : Int, acc : Seq(Int)]
Expressions ==
    [id : Nat, kind : STRING, quarterLength : Fractions, autoScale : BOOLEAN,
     accidentalName : STRING, upperAccidentalName : STRING, lowerAccidentalName : STRING,
     nachschlag : BOOLEAN, delay : [kind : STRING, ql : Fractions], numberOfMarks : Nat]
Events ==
    [dur : Fractions, pitched : BOOLEAN, pitch : Pitches, exprs : Seq(Expressions),
     ctxKey : Seq(Int)]

\* hasattr(thisExpression, 'realize')
HasRealize(e) == e.kind \in OrnamentKinds

\* `self in srcObj.expressions`, `srcObj.expressions.index(self)`: 0 when absent
SameExpression(a, b) == a.id = b.id
InExpressions(o, exprs) == \E i \in 1..Len(exprs) : SameExpression(exprs[i], o)
IndexOf(o, exprs) ==
    IF InExpressions(o, exprs)
    THEN CHOOSE i \in 1..Len(exprs) :
            /\ SameExpression(exprs[i], o)
            /\ \A j \in 1..(i - 1) : ~SameExpression(exprs[j], o)
    ELSE 0
\* list.pop(i) / list.remove(x)
Pop(exprs, i) == SubSeq(exprs, 1, i - 1) \o SubSeq(exprs, i + 1, Len(exprs))
Remove(o, exprs) == IF InExpressions(o, exprs) THEN Pop(exprs, IndexOf(o, exprs)) ELSE exprs

\* a realize that always works on the caller's own object
AlwaysOnCallersObject(inPlace) == TRUE
\* `copy.deepcopy(srcObj) if not inPlace else srcObj`: whether the object
\* worked on is the caller's own
OnCallersObject(inPlace) == inPlace

\* keySig, or the context's key signature, or KeySignature(0)
CurrentKeySig(keySig, srcObj) ==
    IF ~IsNone(keySig) THEN keySig[1]
    ELSE IF ~IsNone(srcObj.ctxKey) THEN srcObj.ctxKey[1]
    ELSE 0

\* a failure raised only after the expressions were taken off the source
FailedAfterClearing(err, srcObj) ==
    [err |-> err, pre |-> <<>>, main |-> None, post |-> <<>>,
     src |-> [srcObj EXCEPT !.exprs = <<>>], useQL |-> Zero, mainIsSrc |-> FALSE]

\* the outcome of one realize call: err is "" on success; src is the caller's
\* event after the call; mainIsSrc tells that the main event is that object
Failed(err, srcObj) ==
    [err |-> err, pre |-> <<>>, main |-> None, post |-> <<>>, src |-> srcObj,
     useQL |-> Zero, mainIsSrc |-> FALSE]
Returned(pre, main, post, srcAfter, useQL, mainIsSrc) ==
    [err |-> "", pre |-> pre, main |-> main, post |-> post, src |-> srcAfter,
     useQL |-> useQL, mainIsSrc |-> mainIsSrc]

\* Ornament.fillListOfRealizedNotes: the two notes appended to fillObjects
FillListOfRealizedNotes(srcObj, transposeInterval, useQL) ==
    << [srcObj EXCEPT !.dur = useQL],
       [srcObj EXCEPT !.dur = useQL,
                      !.pitch = TransposePitch(srcObj.pitch, transposeInterval)] >>

\* Ornament.realize, inherited by Schleifer
OrnamentRealize(o, srcObj, keySig, inPlace) ==
    Returned(<<>>, Some(srcObj), <<>>, srcObj, Zero, OnCallersObject(inPlace))

---------------------------------------------------------------------------
(* Mordent family.                                                         *)

MordentDirectionUp(kind) == "up"

\* GeneralMordent._direction and its subclasses' overrides
MordentDirection(kind) ==
    CASE kind \in {"Mordent", "HalfStepMordent", "WholeStepMordent"} -> "down"
      [] kind \in {"InvertedMordent", "HalfStepInvertedMordent",
                   "WholeStepInvertedMordent"} -> "up"
      [] OTHER -> ""

SizeError(err) == [err |-> err, size |-> [generic |-> 0, semitones |-> 0]]
SizeIs(iv) == [err |-> "", size |-> iv]

\* GeneralMordent.getSize
GeneralMordentGetSize(o, srcObj, keySig) ==
    IF MordentDirection(o.kind) \notin {"up", "down"} THEN SizeError("unrealizable")
    ELSE IF ~srcObj.pitched THEN SizeError("unpitched")
    ELSE
        LET ks == CurrentKeySig(keySig, srcObj)
            stepped == GenericTranspose(srcObj.pitch,
                           IF MordentDirection(o.kind) = "up" THEN 1 ELSE -1)
            ornamentalPitch ==
                [stepped EXCEPT !.acc =
                    IF o.accidentalName # "" THEN Accidental(o.accidentalName)
                    ELSE AccidentalByStep(ks, stepped.step)]
        IN  SizeIs(Interval(srcObj.pitch, ornamentalPitch))

\* getSize of the mordent classes: the HalfStep and WholeStep leaves return a constant
MordentGetSize(o, srcObj, keySig) ==
    CASE o.kind = "HalfStepMordent" -> SizeIs(IntervalReverse(MinorSecond))
      [] o.kind = "WholeStepMordent" -> SizeIs(IntervalReverse(MajorSecond))
      [] o.kind = "HalfStepInvertedMordent" -> SizeIs(MinorSecond)
      [] o.kind = "WholeStepInvertedMordent" -> SizeIs(MajorSecond)
      [] OTHER -> GeneralMordentGetSize(o, srcObj, keySig)

\* a strict comparison in place of `<=`
MordentTooShortStrict(o, dur) == FLt(dur, FScale(2, o.quarterLength))
\* `srcObj.duration.quarterLength <= self.quarterLength * 2`
MordentTooShort(o, dur) == FLe(dur, FScale(2, o.quarterLength))
\* use_ql
MordentUseQL(o, dur) ==
    IF MordentTooShort(o, dur) THEN FDiv(dur, FInt(4)) ELSE o.quarterLength
\* a remainder that gives back the time of one sub-note only
MordentRemainderQLOneNote(dur, use_ql) == FSub(dur, use_ql)
\* remainderQL
MordentRemainderQL(dur, use_ql) == FSub(dur, FScale(2, use_ql))

\* GeneralMordent.realize
MordentRealize(o, srcObj, keySig, inPlace) ==
    IF MordentDirection(o.kind) \notin {"up", "down"} THEN Failed("unrealizable", srcObj)
    ELSE IF srcObj.dur = Zero THEN Failed("untimed", srcObj)
    ELSE IF ~srcObj.pitched THEN Failed("unpitched", srcObj)
    ELSE IF MordentTooShort(o, srcObj.dur) /\ ~o.autoScale THEN Failed("tooShort", srcObj)
    ELSE
        LET use_ql == MordentUseQL(o, srcObj.dur)
            currentKeySig == CurrentKeySig(keySig, srcObj)
            remainderQL == MordentRemainderQL(srcObj.dur, use_ql)
            transposeInterval == MordentGetSize(o, srcObj, Some(currentKeySig)).size
            filled == FillListOfRealizedNotes(srcObj, transposeInterval, use_ql)
            second ==
                IF IsNone(filled[2].pitch.acc)
                THEN [filled[2] EXCEPT !.pitch.acc =
                         AccidentalByStep(currentKeySig, filled[2].pitch.step)]
                ELSE filled[2]
            mordNotes == <<filled[1], second>>
            inExpressions == IndexOf(o, srcObj.exprs)
            remainderNote ==
                [srcObj EXCEPT !.dur = remainderQL,
                               !.exprs = IF inExpressions # 0
                                         THEN Pop(srcObj.exprs, inExpressions)
                                         ELSE srcObj.exprs]
        IN  Returned(mordNotes, Some(remainderNote), <<>>,
                     IF OnCallersObject(inPlace) THEN remainderNote ELSE srcObj,
                     use_ql, OnCallersObject(inPlace))

---------------------------------------------------------------------------
(* Trill family.                                                           *)

\* Trill.getSize
GeneralTrillGetSize(o, srcObj, keySig) ==
    IF ~srcObj.pitched THEN SizeError("unpitched")
    ELSE
        LET ks == CurrentKeySig(keySig, srcObj)
            stepped == GenericTranspose(srcObj.pitch, 1)
            ornamentalPitch ==
                [stepped EXCEPT !.acc =
                    IF o.accidentalName # "" THEN Accidental(o.accidentalName)
                    ELSE AccidentalByStep(ks, stepped.step)]
        IN  SizeIs(Interval(srcObj.pitch, ornamentalPitch))

\* getSize of the trill classes
TrillGetSize(o, srcObj, keySig) ==
    CASE o.kind = "HalfStepTrill" -> SizeIs(MinorSecond)
      [] o.kind = "WholeStepTrill" -> SizeIs(MajorSecond)
      [] OTHER -> GeneralTrillGetSize(o, srcObj, keySig)

AlwaysFromKeySig(kind) == TRUE

\* Trill._setAccidentalFromKeySig
SetAccidentalFromKeySig(kind) == kind \notin {"HalfStepTrill", "WholeStepTrill"}

\* `srcObj.duration.quarterLength < 2 * useQL`
TrillTooShort(o, dur) == FLt(dur, FScale(2, o.quarterLength))
\* `srcObj.duration.quarterLength < 4 * self.quarterLength and self.nachschlag`
TrillTooShortForNachschlag(o, dur) ==
    FLt(dur, FScale(4, o.quarterLength)) /\ o.nachschlag
\* useQL after both adjustments
TrillUseQL(o, dur) ==
    IF TrillTooShortForNachschlag(o, dur) THEN FDiv(dur, FInt(4))
    ELSE IF TrillTooShort(o, dur) THEN FDiv(dur, FInt(2))
    ELSE o.quarterLength
\* numberOfTrillNotes
NumberOfTrillNotes(o, dur, useQL) ==
    FTrunc(FDiv(dur, useQL)) - (IF o.nachschlag THEN 2 ELSE 0)

\* the loop `for unused_counter in range(int(numberOfTrillNotes / 2))`
RECURSIVE TrillFill(_, _, _, _)
TrillFill(count, srcObj, transposeInterval, useQL) ==
    IF count <= 0 THEN <<>>
    ELSE FillListOfRealizedNotes(srcObj, transposeInterval, useQL)
             \o TrillFill(count - 1, srcObj, transposeInterval, useQL)

\* the correction of one trill note from the key signature
TrillCorrect(n, srcObj, currentKeySig) ==
    IF NameWithOctave(n.pitch) # NameWithOctave(srcObj.pitch) /\ IsNone(n.pitch.acc)
    THEN [n EXCEPT !.pitch.acc = AccidentalByStep(currentKeySig, n.pitch.step)]
    ELSE n

\* Trill.realize
TrillRealize(o, srcObj, keySig, inPlace) ==
    IF ~srcObj.pitched THEN Failed("unpitched", srcObj)
    ELSE IF srcObj.dur = Zero THEN Failed("untimed", srcObj)
    ELSE IF TrillTooShort(o, srcObj.dur) /\ ~o.autoScale THEN Failed("tooShort", srcObj)
    ELSE IF TrillTooShortForNachschlag(o, srcObj.dur) /\ ~o.autoScale
         THEN Failed("tooShort", srcObj)
    ELSE
        LET useQL == TrillUseQL(o, srcObj.dur)
            currentKeySig == CurrentKeySig(keySig, srcObj)
            transposeInterval == TrillGetSize(o, srcObj, Some(currentKeySig)).size
            transposeIntervalReverse == IntervalReverse(transposeInterval)
            numberOfTrillNotes == NumberOfTrillNotes(o, srcObj.dur, useQL)
            filled == TrillFill(numberOfTrillNotes \div 2, srcObj, transposeInterval, useQL)
            corrected[n \in Events] == TrillCorrect(n, srcObj, currentKeySig)
            trillNotes ==
                IF SetAccidentalFromKeySig(o.kind)
                THEN [i \in 1..Len(filled) |-> corrected[filled[i]]]
                ELSE filled
            srcAfter ==
                IF inPlace THEN [srcObj EXCEPT !.exprs = Remove(o, srcObj.exprs)]
                ELSE srcObj
            firstNoteNachschlag ==
                [srcObj EXCEPT !.exprs = <<>>, !.dur = useQL,
                    !.pitch.acc = IF SetAccidentalFromKeySig(o.kind)
                                  THEN AccidentalByStep(currentKeySig, srcObj.pitch.step)
                                  ELSE srcObj.pitch.acc]
            transposed == TransposePitch(srcObj.pitch, transposeIntervalReverse)
            secondNoteNachschlag ==
                [srcObj EXCEPT !.exprs = <<>>, !.dur = useQL,
                    !.pitch = IF SetAccidentalFromKeySig(o.kind)
                              THEN [transposed EXCEPT !.acc =
                                       AccidentalByStep(currentKeySig, transposed.step)]
                              ELSE transposed]
        IN  IF o.nachschlag
            THEN Returned(trillNotes, None, <<firstNoteNachschlag, secondNoteNachschlag>>,
                          srcAfter, useQL, FALSE)
            ELSE Returned(trillNotes, None, <<>>, srcAfter, useQL, FALSE)

---------------------------------------------------------------------------
(* Turn family.                                                            *)

NeverInverted(kind) == FALSE

\* Turn._isInverted
IsInverted(kind) == kind = "InvertedTurn"

\* Turn.getSize
TurnGetSize(o, srcObj, keySig, which) ==
    IF which \notin {"upper", "lower"} THEN SizeError("which")
    ELSE IF ~srcObj.pitched THEN SizeError("unpitched")
    ELSE
        LET ks == CurrentKeySig(keySig, srcObj)
            stepped == GenericTranspose(srcObj.pitch, IF which = "upper" THEN 1 ELSE -1)
            accidentalName ==
                IF which = "upper" THEN o.upperAccidentalName ELSE o.lowerAccidentalName
            ornamentalPitch ==
                [stepped EXCEPT !.acc =
                    IF accidentalName # "" THEN Accidental(accidentalName)
                    ELSE AccidentalByStep(ks, stepped.step)]
        IN  SizeIs(Interval(srcObj.pitch, ornamentalPitch))

\* remainderDuration
TurnRemainderDuration(o, dur) ==
    CASE o.delay.kind = "NO_DELAY" -> Zero
      [] o.delay.kind = "DEFAULT_DELAY" -> FDiv(dur, FInt(2))
      [] OTHER -> o.delay.ql
\* `turnDuration < 4 * self.quarterLength`
TurnTooShort(o, turnDuration) == FLt(turnDuration, FScale(4, o.quarterLength))
TurnUseQLUnscaled(o, turnDuration) == o.quarterLength
\* useQL
TurnUseQL(o, turnDuration) ==
    IF TurnTooShort(o, turnDuration) THEN FDiv(turnDuration, FInt(4))
    ELSE o.quarterLength
\* a fourth note that never absorbs the rest of the span
TurnFourthNoteQLPlain(o, turnDuration) == TurnUseQL(o, turnDuration)
\* the quarter length given to the fourth note (fourthNoteQL, or useQL when it is None)
TurnFourthNoteQL(o, turnDuration) ==
    IF ~TurnTooShort(o, turnDuration) /\ FLt(FScale(4, o.quarterLength), turnDuration)
    THEN FSub(turnDuration, FScale(3, o.quarterLength))
    ELSE TurnUseQL(o, turnDuration)

\* Turn.realize
TurnRealize(o, srcObj, keySig, inPlace) ==
    IF ~srcObj.pitched THEN Failed("unpitched", srcObj)
    ELSE IF srcObj.dur = Zero THEN Failed("untimed", srcObj)
    ELSE
        LET remainderDuration == TurnRemainderDuration(o, srcObj.dur)
            turnDuration == FSub(srcObj.dur, remainderDuration)
        IN  IF TurnTooShort(o, turnDuration) /\ ~o.autoScale
            THEN Failed("tooShort", srcObj)
            ELSE
            LET useQL == TurnUseQL(o, turnDuration)
                firstTransposeInterval ==
                    TurnGetSize(o, srcObj, keySig,
                                IF IsInverted(o.kind) THEN "lower" ELSE "upper").size
                secondTransposeInterval ==
                    TurnGetSize(o, srcObj, keySig,
                                IF IsInverted(o.kind) THEN "upper" ELSE "lower").size
                plain == [srcObj EXCEPT !.exprs = <<>>, !.dur = useQL]
                \* the key signature of the context, whatever keySig is
                currentKeySig == CurrentKeySig(None, srcObj)
                FromKeySig(n) ==
                    IF IsNone(n.pitch.acc)
                    THEN [n EXCEPT !.pitch.acc = AccidentalByStep(currentKeySig, n.pitch.step)]
                    ELSE n
                firstNote ==
                    FromKeySig([plain EXCEPT !.pitch =
                                   TransposePitch(srcObj.pitch, firstTransposeInterval)])
                secondNote == plain
                thirdNote ==
                    FromKeySig([plain EXCEPT !.pitch =
                                   TransposePitch(srcObj.pitch, secondTransposeInterval)])
                fourthNote == [plain EXCEPT !.dur = TurnFourthNoteQL(o, turnDuration)]
                turnNotes == <<firstNote, secondNote, thirdNote, fourthNote>>
                inExpressions == IndexOf(o, srcObj.exprs)
                remainderNote ==
                    [srcObj EXCEPT !.dur = remainderDuration,
                                   !.exprs = IF inExpressions # 0
                                             THEN Pop(srcObj.exprs, inExpressions)
                                             ELSE srcObj.exprs]
            IN  IF remainderDuration = Zero
                THEN Returned(<<>>, None, turnNotes, srcObj, useQL, FALSE)
                ELSE Returned(<<>>, Some(remainderNote), turnNotes,
                              IF OnCallersObject(inPlace) THEN remainderNote ELSE srcObj,
                              useQL, OnCallersObject(inPlace))

---------------------------------------------------------------------------
(* Appoggiatura family.                                                    *)

\* GeneralAppoggiatura.direction and its subclasses' overrides
AppoggiaturaDirection(kind) ==
    CASE kind \in {"Appoggiatura", "HalfStepAppoggiatura", "WholeStepAppoggiatura"} -> "down"
      [] kind \in {"InvertedAppoggiatura", "HalfStepInvertedAppoggiatura",
                   "WholeStepInvertedAppoggiatura"} -> "up"
      [] OTHER -> ""

\* self.size: interval.Interval(2) unless a subclass sets 'm2' or 'M2'
AppoggiaturaSize(kind) ==
    IF kind \in {"HalfStepAppoggiatura", "HalfStepInvertedAppoggiatura"}
    THEN MinorSecond ELSE MajorSecond

AppoggiaturaWholeDuration(dur) == dur
\* newDuration
AppoggiaturaNewDuration(dur) == FDiv(dur, FInt(2))

\* GeneralAppoggiatura.realize; a rest has no transpose method
AppoggiaturaRealize(o, srcObj, keySig, inPlace) ==
    IF AppoggiaturaDirection(o.kind) \notin {"up", "down"}
    THEN Failed("unrealizable", srcObj)
    ELSE IF srcObj.dur = Zero THEN Failed("untimed", srcObj)
    ELSE IF ~srcObj.pitched THEN Failed("attribute", srcObj)
    ELSE
        LET newDuration == AppoggiaturaNewDuration(srcObj.dur)
            transposeInterval ==
                IF AppoggiaturaDirection(o.kind) = "down" THEN AppoggiaturaSize(o.kind)
                ELSE IntervalReverse(AppoggiaturaSize(o.kind))
            appoggiaturaNote ==
                [srcObj EXCEPT !.dur = newDuration,
                               !.pitch = TransposePitch(srcObj.pitch, transposeInterval)]
            inExpressions == IndexOf(o, srcObj.exprs)
            remainderNote ==
                [srcObj EXCEPT !.dur = newDuration,
                               !.exprs = IF inExpressions # 0
                                         THEN Pop(srcObj.exprs, inExpressions)
                                         ELSE srcObj.exprs]
        IN  Returned(<<appoggiaturaNote>>, Some(remainderNote), <<>>,
                     IF OnCallersObject(inPlace) THEN remainderNote ELSE srcObj,
                     newDuration, OnCallersObject(inPlace))

---------------------------------------------------------------------------
(* Tremolo.                                                                *)

\* Expression.tieAttach as each class sets it; a Trill has a splitClient
\* that attaches it to the first part
TieAttach(kind) ==
    CASE kind \in TurnKinds -> "all"
      [] kind = "Fermata" -> "last"
      [] OTHER -> "first"

RECURSIVE SelectExprs(_, _)
SelectExprs(exprs, attach) ==
    IF exprs = <<>> THEN <<>>
    ELSE (IF TieAttach(Head(exprs).kind) \in attach THEN <<Head(exprs)>> ELSE <<>>)
             \o SelectExprs(Tail(exprs), attach)

\* Music21Object.splitAtQuarterLength(quarterLength, retainOrigin=False):
\* two new events, the expressions shared out by tieAttach
SplitAtQuarterLength(e, quarterLength) ==
    << [e EXCEPT !.dur = quarterLength, !.exprs = SelectExprs(e.exprs, {"first", "all"})],
       [e EXCEPT !.dur = FSub(e.dur, quarterLength),
                 !.exprs = SelectExprs(e.exprs, {"last", "all"})] >>

\* lengthOfEach
LengthOfEach(o) == TwoToMinus(o.numberOfMarks)

TremoloLoopAtOrAbove(quarterLength, lengthOfEach) == FLe(lengthOfEach, quarterLength)

\* eRemain.quarterLength > lengthOfEach
TremoloLoopContinues(quarterLength, lengthOfEach) == FLt(lengthOfEach, quarterLength)

\* the while loop of Tremolo.realize and the append that follows it
TremoloSplit(eRemain, lengthOfEach) ==
    LET objsConverted[e \in Events] ==
            IF TremoloLoopContinues(e.dur, lengthOfEach)
            THEN LET parts == SplitAtQuarterLength(e, lengthOfEach)
                 IN  <<parts[1]>> \o objsConverted[parts[2]]
            ELSE <<e>>
    IN  objsConverted[eRemain]

\* Tremolo.realize
TremoloRealize(o, srcObj, keySig, inPlace) ==
    LET eRemain == [srcObj EXCEPT !.exprs = Remove(o, srcObj.exprs)]
    IN  Returned(TremoloSplit(eRemain, LengthOfEach(o)), None, <<>>,
                 IF OnCallersObject(inPlace) THEN eRemain ELSE srcObj,
                 LengthOfEach(o), FALSE)

---------------------------------------------------------------------------
(* thisExpression.realize(srcObj, keySig=keySig, inPlace=inPlace): the     *)
(* override of the expression's class.                                     *)

Realize(o, srcObj, keySig, inPlace) ==
    CASE o.kind \in MordentKinds -> MordentRealize(o, srcObj, keySig, inPlace)
      [] o.kind \in TrillKinds -> TrillRealize(o, srcObj, keySig, inPlace)
      [] o.kind \in TurnKinds -> TurnRealize(o, srcObj, keySig, inPlace)
      [] o.kind \in AppoggiaturaKinds -> AppoggiaturaRealize(o, srcObj, keySig, inPlace)
      [] o.kind = "Tremolo" -> TremoloRealize(o, srcObj, keySig, inPlace)
      [] OTHER -> OrnamentRealize(o, srcObj, keySig, inPlace)

---------------------------------------------------------------------------
(* The numberOfMarks setters.  A value assigned is [type, val, parses]:    *)
(* an int or a float of value val, or a str that reads as the integer val  *)
(* when parses is TRUE and as no number otherwise.                         *)

MaxNumberOfMarks == 8
DefaultNumberOfMarks == 3

\* int(num): the integer, or a ValueError
IntOf(num) ==
    CASE num.type = "int" -> [ok |-> TRUE, n |-> num.val[1]]
      [] num.type = "float" -> [ok |-> TRUE, n |-> FTrunc(num.val)]
      [] OTHER -> [ok |-> num.parses, n |-> IF num.parses THEN num.val[1] ELSE 0]

\* Tremolo.numberOfMarks setter: the value stored afterwards and the error raised
TremoloSetNumberOfMarks(stored, num) ==
    LET c == IntOf(num)
    IN  IF ~c.ok \/ c.n < 0 \/ c.n > MaxNumberOfMarks
        THEN [stored |-> stored, err |-> "TremoloException"]
        ELSE [stored |-> c.n, err |-> ""]

\* TremoloSpanner.numberOfMarks setter
TremoloSpannerSetNumberOfMarks(stored, num) ==
    LET c == IntOf(num)
    IN  IF ~c.ok \/ c.n < 0 \/ c.n > MaxNumberOfMarks
        THEN [stored |-> stored, err |-> "TremoloException"]
        ELSE [stored |-> c.n, err |-> ""]

---------------------------------------------------------------------------
(* Inputs.                                                                 *)

DurDens == {1, 3, 8}
Durations == {Frac(n, d) : n \in 0..MaxDurNum, d \in DurDens}
QuarterLengths == {Frac(1, 8), Frac(1, 4)}
ExplicitDelays == {Frac(1, 4), FInt(1)}

C4 == Pitch(0, 4, None)
B4 == Pitch(6, 4, None)

WithQL(kind, ql, autoScale) ==
    [Expression(kind, 1) EXCEPT !.quarterLength = ql, !.autoScale = autoScale]

\* the ornaments whose realize is called directly
CallMordents ==
    {WithQL(k, ql, a) : k \in MordentKinds, ql \in QuarterLengths, a \in BOOLEAN}
CallTrills ==
    {[WithQL(k, ql, a) EXCEPT !.nachschlag = n] :
        k \in TrillKinds, ql \in QuarterLengths, a \in BOOLEAN, n \in BOOLEAN}
CallTurns ==
    {[WithQL(k, ql, a) EXCEPT !.delay = TurnDelaySetter(d)] :
        k \in TurnKinds, ql \in QuarterLengths, a \in BOOLEAN,
        d \in {NoDelay, DefaultDelay, DelayQL(Zero)} \cup {DelayQL(q) : q \in ExplicitDelays}
                 \* an int is neither float nor Fraction: the setter stores it as it is
                 \cup {[kind |-> "int", ql |-> FInt(n)] : n \in {-1, 0}}}
CallAppoggiaturas == {Expression(k, 1) : k \in AppoggiaturaKinds}
CallTremolos == {[Expression("Tremolo", 1) EXCEPT !.numberOfMarks = m] : m \in 0..MaxMarks}
CallOrnaments ==
    CallMordents \cup CallTrills \cup CallTurns \cup CallAppoggiaturas
        \cup CallTremolos \cup {Expression("Schleifer", 1)}

Fermata(id) == Expression("Fermata", id)

\* the expression lists of the event an ornament is realized on: without
\* the ornament, with it alone, with it after a fermata
CallExprs(o) == {<<>>, <<o>>, <<Fermata(2), o>>}

CallEvents(o) ==
    {Event(d, TRUE, p, x, None) : d \in Durations, p \in {C4, B4}, x \in CallExprs(o)}
        \cup {Event(d, FALSE, C4, x, None) : d \in Durations, x \in CallExprs(o)}

IntInputs == {[type |-> "int", val |-> FInt(n), parses |-> TRUE] :
                 n \in (-MaxMarkInput)..(MaxNumberOfMarks + MaxMarkInput)}
FloatInputs == {[type |-> "float", val |-> Frac(n, 2), parses |-> TRUE] :
                   n \in (-2 * MaxMarkInput)..(2 * (MaxNumberOfMarks + MaxMarkInput))}
StrInputs == {[type |-> "str", val |-> FInt(n), parses |-> b] :
                 n \in {DefaultNumberOfMarks}, b \in BOOLEAN}
MarkInputs == IntInputs \cup FloatInputs \cup StrInputs

---------------------------------------------------------------------------
(* realizeOrnaments.                                                        *)

LoopBuster == 100

\* a loop test that never stops the loop
LoopNeverBusted(loopBuster) == TRUE
\* `while loopBuster:`
LoopContinues(loopBuster) == loopBuster # 0

\* the consumed source object kept as the remaining event
KeepSrcObject(srcObject, newSrcObject) == srcObject
\* `srcObject = newSrcObject` before the break, newSrcObject being None
ConsumedSrcObject(srcObject, newSrcObject) == newSrcObject

\* the post-notes put ahead of the remaining event
RetListPostFirst(preExpandList, srcObject, postExpandList) ==
    preExpandList \o postExpandList \o srcObject
\* the post-notes left out of the list
RetListWithoutPost(preExpandList, srcObject, postExpandList) ==
    preExpandList \o srcObject
\* retList: preExpandList, then srcObject unless None, then postExpandList
RetList(preExpandList, srcObject, postExpandList) ==
    preExpandList \o srcObject \o postExpandList

\* the expressions of the events handed to realizeOrnaments
ROTemplates ==
    {Expression("Mordent", 1), Expression("Trill", 1),
     [Expression("Trill", 1) EXCEPT !.nachschlag = TRUE],
     Expression("Turn", 1),
     [Expression("Turn", 1) EXCEPT !.delay = TurnDelaySetter(DefaultDelay)],
     Expression("Appoggiatura", 1), Expression("Tremolo", 1),
     Expression("Schleifer", 1), Fermata(1)}
ROExprsOfLen(n) ==
    {[i \in 1..n |-> [f[i] EXCEPT !.id = i]] : f \in [1..n -> ROTemplates]}
ROShortExprs == UNION {ROExprsOfLen(n) : n \in 0..MaxExprs}
\* lists of fermatas as long as the ceiling, one shorter and longer
ROLongExprs ==
    {[i \in 1..(LoopBuster - 1 + k) |-> Fermata(i)] : k \in 0..MaxOverCeiling}
RODurations == {Frac(n, 2) : n \in 0..MaxRODurNum}
ROEvents ==
    {Event(d, pitched, C4, x, None) :
        d \in RODurations, pitched \in BOOLEAN, x \in ROShortExprs}
      \cup {Event(Frac(1, 1), TRUE, C4, x, None) : x \in ROLongExprs}

---------------------------------------------------------------------------
(* State.                                                                  *)
(* call: the last direct call of realize (op is "none" before any).        *)
(* ro:   the activation of realizeOrnaments: pc is its position (idle,     *)
(*       loop, exit, done, raised); input is the event as it was passed,   *)
(*       caller the caller's object as it is now, aliased whether          *)
(*       srcObject still is the caller's object; log holds, per iteration, *)
(*       the expression taken and what its realize returned.               *)
(* trem: the numberOfMarks a Tremolo and a TremoloSpanner store, and the   *)
(*       last assignment made.                                             *)
(* orn:  one ornament object: o its attributes, ornamentalPitches what     *)
(*       resolveOrnamentalPitches cached (each pitch with the display      *)
(*       status of its accidental: "None", "True" or "False"), last the    *)
(*       operation applied last, arg the value it was given, err its error.*)

NoCall ==
    [op |-> "none", orn |-> Expression("Schleifer", 1),
     src |-> Event(Zero, FALSE, C4, <<>>, None), keySig |-> None, inPlace |-> FALSE,
     out |-> Failed("", Event(Zero, FALSE, C4, <<>>, None))]

NoAssignment ==
    [target |-> "none", num |-> [type |-> "int", val |-> Zero, parses |-> TRUE],
     before |-> DefaultNumberOfMarks, err |-> ""]

\* a direct call thisExpression.realize(srcObj, keySig=keySig, inPlace=inPlace)
RealizeCall ==
    /\ call.op = "none"
    /\ \E o \in CallOrnaments : \E srcObj \in CallEvents(o) : \E inPlace \in BOOLEAN :
          call' = [op |-> "realize", orn |-> o, src |-> srcObj, keySig |-> None,
                   inPlace |-> inPlace, out |-> Realize(o, srcObj, None, inPlace)]
    /\ UNCHANGED <<ro, trem, orn>>

\* the caller drops the result
RealizeDiscard ==
    /\ call.op = "realize"
    /\ call' = NoCall
    /\ UNCHANGED <<ro, trem, orn>>

\* tremolo.numberOfMarks = num
TremoloAssign ==
    /\ \E num \in MarkInputs :
          LET r == TremoloSetNumberOfMarks(trem.tremolo, num)
          IN  trem' = [trem EXCEPT !.tremolo = r.stored,
                          !.last = [target |-> "Tremolo", num |-> num,
                                    before |-> trem.tremolo, err |-> r.err]]
    /\ UNCHANGED <<call, ro, orn>>

\* tremoloSpanner.numberOfMarks = num
TremoloSpannerAssign ==
    /\ \E num \in MarkInputs :
          LET r == TremoloSpannerSetNumberOfMarks(trem.spanner, num)
          IN  trem' = [trem EXCEPT !.spanner = r.stored,
                          !.last = [target |-> "TremoloSpanner", num |-> num,
                                    before |-> trem.spanner, err |-> r.err]]
    /\ UNCHANGED <<call, ro, orn>>

\* realize with a key signature: the ornaments carry accidental names (the
\* HalfStep and WholeStep classes never have one), the event is a quarter note on one of a few pitches inside a context whose key
\* signature is ctxKey (None: no key signature found), and keySig is passed
\* or omitted
OptKeySigs == {None} \cup {Some(k) : k \in (-MaxFlats)..MaxSharps}
OptAccidentalNames == {""} \cup AccidentalNames
PitchOrnaments ==
    {[Expression(k, 1) EXCEPT !.accidentalName = a] :
        k \in {"GeneralMordent", "Mordent", "InvertedMordent", "Trill", "Shake"},
        a \in OptAccidentalNames}
    \cup {Expression(k, 1) : k \in MordentKinds \cup TrillKinds}
    \cup {[Expression(k, 1) EXCEPT !.nachschlag = TRUE] : k \in TrillKinds}
    \cup {[Expression(k, 1) EXCEPT !.upperAccidentalName = u, !.lowerAccidentalName = l,
                                   !.delay = d] :
             k \in TurnKinds, u \in OptAccidentalNames, l \in OptAccidentalNames,
             d \in {NoDelay, DefaultDelay}}
PitchInputs == {C4, B4, Pitch(0, 4, Some(1)), Pitch(3, 4, None)}

PitchCall ==
    /\ call.op = "none"
    /\ \E o \in PitchOrnaments : \E p \in PitchInputs :
       \E ctxKey \in OptKeySigs : \E keySig \in OptKeySigs : \E inPlace \in BOOLEAN :
          LET srcObj == Event(FInt(1), TRUE, p, <<o>>, ctxKey)
          IN  call' = [op |-> "realize", orn |-> o, src |-> srcObj, keySig |-> keySig,
                       inPlace |-> inPlace, out |-> Realize(o, srcObj, keySig, inPlace)]
    /\ UNCHANGED <<ro, trem, orn>>

\* getSize as each class overrides it
GetSize(o, srcObj, keySig, which) ==
    CASE o.kind \in MordentKinds -> MordentGetSize(o, srcObj, keySig)
      [] o.kind \in TrillKinds -> TrillGetSize(o, srcObj, keySig)
      [] OTHER -> TurnGetSize(o, srcObj, keySig, which)

\* a call thisExpression.getSize(srcObj, keySig=keySig, which=which) on a
\* note or on a rest
GetSizeCall ==
    /\ call.op = "none"
    /\ \E o \in PitchOrnaments : \E p \in PitchInputs : \E pitched \in BOOLEAN :
       \E ctxKey \in OptKeySigs : \E keySig \in OptKeySigs :
       \E which \in {"", "upper", "lower"} :
          LET srcObj == Event(FInt(1), pitched, IF pitched THEN p ELSE C4, <<o>>, ctxKey)
          IN  call' = [op |-> "getSize", orn |-> o, src |-> srcObj, keySig |-> keySig,
                       which |-> which, out |-> GetSize(o, srcObj, keySig, which)]
    /\ UNCHANGED <<ro, trem, orn>>

\* the caller drops the interval
GetSizeDiscard ==
    /\ call.op = "getSize"
    /\ call' = NoCall
    /\ UNCHANGED <<ro, trem, orn>>

---------------------------------------------------------------------------
(* One ornament object: construction, the accidental-name setters,         *)
(* resolveOrnamentalPitches, updateAccidentalDisplay and realize.          *)

NoOrnament ==
    [o |-> Expression("Schleifer", 1), ornamentalPitches |-> <<>>,
     last |-> "none", arg |-> "", err |-> ""]

\* pitch.isValidAccidentalName / standardizeAccidentalName as the setters use
\* them: a valid name is stored, anything else becomes ''
AccidentalNameSetter(newAccidentalName) ==
    IF newAccidentalName # "" /\ newAccidentalName \in AccidentalNames
    THEN newAccidentalName ELSE ""

NeverForced(accidentalName) == FALSE

\* `if self.accidentalName:` (upperAccidentalName, lowerAccidentalName): the
\* accidental of the ornamental pitch is forced visible
ForcedVisible(accidentalName) == accidentalName # ""

\* the accidental names that govern the ornamental pitches, in cache order
AccidentalNamesOf(o) ==
    IF o.kind \in TurnKinds THEN <<o.upperAccidentalName, o.lowerAccidentalName>>
    ELSE <<o.accidentalName>>

\* resolveOrnamentalPitches: the new cache, or the error and the cache kept
ResolveOrnamentalPitches(o, cached, srcObj, keySig) ==
    LET which == IF o.kind \in TurnKinds THEN <<"upper", "lower">> ELSE <<"">>
        size == [i \in 1..Len(which) |-> GetSize(o, srcObj, keySig, which[i])]
        Resolved(i) ==
            LET p == TransposePitch(srcObj.pitch, size[i].size)
            IN  IF ForcedVisible(AccidentalNamesOf(o)[i])
                THEN [pitch |-> [p EXCEPT !.acc = IF IsNone(@) THEN Some(0) ELSE @],
                      displayStatus |-> "True"]
                ELSE [pitch |-> p, displayStatus |-> "None"]
    IN  IF ~srcObj.pitched THEN [err |-> "unpitched", pitches |-> cached]
        ELSE IF \E i \in 1..Len(which) : size[i].err # ""
        THEN [err |-> size[CHOOSE i \in 1..Len(which) : size[i].err # ""].err,
              pitches |-> cached]
        ELSE [err |-> "", pitches |-> [i \in 1..Len(which) |-> Resolved(i)]]

\* updateAccidentalDisplay: a forced pitch is made visible; any other pitch is
\* left to Pitch.updateAccidentalDisplay, whose outcome external[i] is the
\* display status it decides on ("None": it leaves the pitch alone)
UpdateAccidentalDisplay(o, cached, external) ==
    [i \in 1..Len(cached) |->
        IF ForcedVisible(AccidentalNamesOf(o)[i])
        THEN [pitch |-> [cached[i].pitch EXCEPT !.acc = IF IsNone(@) THEN Some(0) ELSE @],
              displayStatus |-> "True"]
        ELSE IF external[i] = "None" THEN cached[i]
        ELSE IF IsNone(cached[i].pitch.acc)
        THEN (IF external[i] = "True"
              THEN [pitch |-> [cached[i].pitch EXCEPT !.acc = Some(0)],
                    displayStatus |-> "True"]
              ELSE cached[i])
        ELSE [cached[i] EXCEPT !.displayStatus = external[i]]]

\* the ornaments constructed: accidental names are given later, by the setters
DisplayOrnaments ==
    {Expression(k, 1) :
        k \in {"Mordent", "HalfStepMordent", "Trill", "Turn", "Tremolo", "Appoggiatura"}}
    \cup {[Expression("InvertedMordent", 1) EXCEPT !.autoScale = FALSE],
          [Expression("Trill", 1) EXCEPT !.nachschlag = TRUE],
          [Expression("InvertedTurn", 1) EXCEPT !.delay = DefaultDelay]}

OrnConstruct ==
    /\ orn.last = "none"
    /\ \E o \in DisplayOrnaments :
          orn' = [NoOrnament EXCEPT !.o = o, !.last = "construct"]
    /\ UNCHANGED <<call, ro, trem>>

\* ornament.accidentalName = name (upperAccidentalName, lowerAccidentalName
\* on a turn); the setter of a HalfStep or WholeStep class only raises
OrnSetAccidentalName ==
    /\ orn.last # "none"
    /\ orn.o.kind \in MordentKinds \cup TrillKinds \cup TurnKinds
    /\ \E name \in {"", "natural", "sharp", "bogus"} : \E upper \in BOOLEAN :
          orn' = [orn EXCEPT
                     !.o = IF orn.o.kind \in TurnKinds
                           THEN (IF upper
                                 THEN [@ EXCEPT !.upperAccidentalName = AccidentalNameSetter(name)]
                                 ELSE [@ EXCEPT !.lowerAccidentalName = AccidentalNameSetter(name)])
                           ELSE IF orn.o.kind \in {"GeneralMordent", "Mordent", "InvertedMordent",
                                                    "Trill", "Shake"}
                           THEN [@ EXCEPT !.accidentalName = AccidentalNameSetter(name)]
                           ELSE @,
                     !.last = "set", !.arg = name,
                     !.err = IF orn.o.kind \in TurnKinds \cup {"GeneralMordent", "Mordent",
                                     "InvertedMordent", "Trill", "Shake"}
                             THEN "" ELSE "ExpressionException"]
    /\ UNCHANGED <<call, ro, trem>>

\* ornament.resolveOrnamentalPitches(srcObj, keySig=keySig)
OrnResolve ==
    /\ orn.last # "none"
    /\ orn.o.kind \in MordentKinds \cup TrillKinds \cup TurnKinds
    /\ \E p \in {C4, B4} : \E pitched \in BOOLEAN : \E keySig \in {None, Some(MaxSharps)} :
          LET srcObj == Event(FInt(1), pitched, IF pitched THEN p ELSE C4, <<orn.o>>, None)
              r == ResolveOrnamentalPitches(orn.o, orn.ornamentalPitches, srcObj, keySig)
          IN  orn' = [orn EXCEPT !.ornamentalPitches = r.pitches, !.last = "resolve",
                                 !.arg = "", !.err = r.err]
    /\ UNCHANGED <<call, ro, trem>>

\* ornament.updateAccidentalDisplay(pitchPast=..., cautionaryAll=..., ...)
OrnUpdate ==
    /\ orn.last # "none"
    /\ orn.o.kind \in MordentKinds \cup TrillKinds \cup TurnKinds
    /\ \E external \in [1..Len(orn.ornamentalPitches) -> {"None", "True", "False"}] :
          orn' = [orn EXCEPT
                     !.ornamentalPitches =
                         UpdateAccidentalDisplay(orn.o, orn.ornamentalPitches, external),
                     !.last = "update", !.arg = "", !.err = ""]
    /\ UNCHANGED <<call, ro, trem>>

SelfRescaled(o, out) == [o EXCEPT !.quarterLength = out.useQL]

\* the ornament after its realize returned or raised: no realize assigns to
\* an attribute of self
SelfAfterRealize(o, out) == o

\* ornament.realize(srcObj, inPlace=inPlace) on a note that carries it
OrnRealize ==
    /\ orn.last # "none"
    /\ \E d \in {Zero, Frac(1, 4), FInt(1)} : \E inPlace \in BOOLEAN :
          LET srcObj == Event(d, TRUE, C4, <<orn.o>>, None)
              out == Realize(orn.o, srcObj, None, inPlace)
          IN  orn' = [orn EXCEPT !.o = SelfAfterRealize(orn.o, out), !.last = "realize",
                                 !.arg = "", !.err = out.err]
    /\ UNCHANGED <<call, ro, trem>>

ROIdle ==
    [pc |-> "idle", input |-> Event(Zero, FALSE, C4, <<>>, None), hasExpressions |-> TRUE,
     caller |-> Event(Zero, FALSE, C4, <<>>, None), aliased |-> TRUE,
     srcObject |-> None, keySig |-> None,
     preExpandList |-> <<>>, postExpandList |-> <<>>, loopBuster |-> LoopBuster,
     retList |-> <<>>, log |-> <<>>, err |-> ""]

\* realizeOrnaments(srcObject), keySig left at None, up to the loop; an object
\* without expressions, or with none, is returned at once
RO_Call ==
    /\ ro.pc = "idle"
    /\ \E srcObject \in ROEvents : \E hasExpressions \in BOOLEAN :
          /\ ~hasExpressions => srcObject.exprs = <<>>
          /\ ro' = [ROIdle EXCEPT
                       !.input = srcObject, !.caller = srcObject,
                       !.hasExpressions = hasExpressions,
                       !.srcObject = Some(srcObject), !.keySig = None,
                       !.pc = IF srcObject.exprs = <<>> THEN "done" ELSE "loop",
                       !.retList = IF srcObject.exprs = <<>> THEN <<srcObject>> ELSE <<>>]
    /\ UNCHANGED <<call, trem, orn>>

\* one iteration of the loop whose first expression can be realized, r being
\* what its realize gave
IterateRealize(thisExpression, s, r) ==
    LET entry == [expr |-> thisExpression, realized |-> TRUE,
                  pre |-> r.pre, main |-> r.main, post |-> r.post]
        newSrcObject == [r.main[1] EXCEPT !.exprs = Tail(s.exprs)]
        sameObject == ro.aliased /\ r.mainIsSrc
    IN  IF r.err # ""
        THEN [ro EXCEPT !.pc = "raised", !.err = r.err, !.loopBuster = @ - 1,
                        !.caller = IF ro.aliased THEN r.src ELSE @]
        ELSE IF IsNone(r.main)
        THEN [ro EXCEPT !.pc = "exit", !.loopBuster = @ - 1,
                        !.preExpandList = @ \o r.pre, !.postExpandList = @ \o r.post,
                        !.log = Append(@, entry),
                        !.caller = IF ro.aliased THEN r.src ELSE @,
                        !.srcObject = ConsumedSrcObject(ro.srcObject, r.main)]
        ELSE [ro EXCEPT !.pc = IF newSrcObject.exprs = <<>> THEN "exit" ELSE "loop",
                        !.loopBuster = @ - 1,
                        !.preExpandList = @ \o r.pre, !.postExpandList = @ \o r.post,
                        !.log = Append(@, entry),
                        !.caller = IF sameObject THEN newSrcObject
                                   ELSE IF ro.aliased THEN r.src ELSE @,
                        !.aliased = sameObject,
                        !.srcObject = Some(newSrcObject)]

\* one iteration of the loop whose first expression has no realize
IterateSkip(thisExpression, s) ==
    LET entry == [expr |-> thisExpression, realized |-> FALSE,
                  pre |-> <<>>, main |-> None, post |-> <<>>]
        shortened == [s EXCEPT !.exprs = Tail(s.exprs)]
    IN  [ro EXCEPT !.pc = IF shortened.exprs = <<>> THEN "exit" ELSE "loop",
                   !.loopBuster = @ - 1,
                   !.log = Append(@, entry),
                   !.caller = IF ro.aliased THEN shortened ELSE @,
                   !.srcObject = Some(shortened)]

\* the body of `while loopBuster:`
RO_Iterate ==
    /\ ro.pc = "loop"
    /\ LoopContinues(ro.loopBuster)
    /\ LET s == ro.srcObject[1]
           thisExpression == Head(s.exprs)
       IN  IF HasRealize(thisExpression)
           THEN \E r \in {Realize(thisExpression, s, ro.keySig, FALSE)} :
                   ro' = IterateRealize(thisExpression, s, r)
           ELSE ro' = IterateSkip(thisExpression, s)
    /\ UNCHANGED <<call, trem, orn>>

\* the loop test fails: loopBuster has run out
RO_Ceiling ==
    /\ ro.pc = "loop"
    /\ ~LoopContinues(ro.loopBuster)
    /\ ro' = [ro EXCEPT !.pc = "exit"]
    /\ UNCHANGED <<call, trem, orn>>

\* after the loop: build and return retList
RO_Return ==
    /\ ro.pc = "exit"
    /\ ro' = [ro EXCEPT !.pc = "done",
                 !.retList = RetList(ro.preExpandList, ro.srcObject, ro.postExpandList)]
    /\ UNCHANGED <<call, trem, orn>>

\* the caller drops the result, or handles the error
RO_Discard ==
    /\ ro.pc \in {"done", "raised"}
    /\ ro' = ROIdle
    /\ UNCHANGED <<call, trem, orn>>

Init ==
    /\ call = NoCall
    /\ ro = ROIdle
    /\ trem = [tremolo |-> DefaultNumberOfMarks, spanner |-> DefaultNumberOfMarks,
               last |-> NoAssignment]
    /\ orn = NoOrnament

NextRealize == RealizeCall \/ RealizeDiscard
SpecRealize == Init /\ [][NextRealize]_vars

NextPitch == PitchCall \/ RealizeDiscard
SpecPitch == Init /\ [][NextPitch]_vars

NextGetSize == GetSizeCall \/ GetSizeDiscard
SpecGetSize == Init /\ [][NextGetSize]_vars

NextDisplay == OrnConstruct \/ OrnSetAccidentalName \/ OrnResolve \/ OrnUpdate \/ OrnRealize
SpecDisplay == Init /\ [][NextDisplay]_vars

NextTremolo == TremoloAssign \/ TremoloSpannerAssign
SpecTremolo == Init /\ [][NextTremolo]_vars

NextDriver == RO_Call \/ RO_Iterate \/ RO_Ceiling \/ RO_Return \/ RO_Discard
SpecDriver == Init /\ [][NextDriver]_vars
\* once called, the function runs on: each step it can take is taken
FairSpecDriver ==
    SpecDriver /\ WF_vars(RO_Iterate) /\ WF_vars(RO_Ceiling) /\ WF_vars(RO_Return)

Next == NextRealize \/ NextPitch \/ NextGetSize \/ NextDisplay \/ NextTremolo \/ NextDriver
Spec == Init /\ [][Next]_vars

---------------------------------------------------------------------------
(* Properties of a single realize call (SpecRealize).                      *)

Called == call.op = "realize"
Succeeded == Called /\ call.out.err = ""
RECURSIVE DurationsOf(_)
DurationsOf(notes) ==
    IF notes = <<>> THEN <<>> ELSE <<Head(notes).dur>> \o DurationsOf(Tail(notes))
MainDuration == IF IsNone(call.out.main) THEN Zero ELSE call.out.main[1].dur

\* C1: realize called with inPlace=False leaves its input event as it was
\* (duration, pitch, ordered expression list), for every ornament class and
\* whether the call returns or raises.
C1_OutOfPlaceLeavesSource ==
    (Called /\ ~call.inPlace) => call.out.src = call.src

\* an out-of-place call that returned a remainder event differing from the source
C1_Witness ==
    /\ Succeeded /\ ~call.inPlace
    /\ ~IsNone(call.out.main)
    /\ call.out.main[1].dur # call.src.dur
    /\ call.out.main[1].exprs # call.src.exprs

\* C2: a successful Mordent realization returns two sub-notes and a remainder
\* whose durations sum exactly to the duration of the source event.
C2_MordentDurationsSum ==
    (Succeeded /\ call.orn.kind \in MordentKinds) =>
        /\ Len(call.out.pre) = 2
        /\ ~IsNone(call.out.main)
        /\ FAdd(FSum(DurationsOf(call.out.pre)), MainDuration) = call.src.dur

\* a mordent that was scaled down to fit a short event
C2_Witness ==
    /\ Succeeded /\ call.orn.kind \in MordentKinds
    /\ FLt(Zero, call.src.dur)
    /\ call.out.pre[1].dur # call.orn.quarterLength

\* C3: a successful Turn realization returns four turn notes whose durations,
\* plus the delay kept on the remainder event, sum exactly to the duration of
\* the source event; when the turn span exceeds four times quarterLength the
\* first three notes last quarterLength and the fourth takes the rest of the span.
C3_TurnDurationsSum ==
    (Succeeded /\ call.orn.kind \in TurnKinds) =>
        LET d == call.src.dur
            ql == call.orn.quarterLength
            delay == CASE call.orn.delay.kind = "NO_DELAY" -> Zero
                       [] call.orn.delay.kind = "DEFAULT_DELAY" -> FDiv(d, FInt(2))
                       [] OTHER -> call.orn.delay.ql
            span == FSub(d, delay)
            post == call.out.post
        IN  /\ Len(post) = 4
            /\ MainDuration = delay
            /\ FAdd(FSum(DurationsOf(post)), MainDuration) = d
            /\ FLt(FScale(4, ql), span) =>
                  /\ \A i \in 1..3 : post[i].dur = ql
                  /\ post[4].dur = FSub(span, FScale(3, ql))

\* a delayed turn whose fourth note is longer than the other three
C3_Witness ==
    /\ Succeeded /\ call.orn.kind \in TurnKinds
    /\ ~IsNone(call.out.main)
    /\ FLt(call.out.post[1].dur, call.out.post[4].dur)

\* C4: a successful Trill realization loses none of the source duration: the
\* number of alternation notes (plus two with nachschlag) times useQL equals
\* the duration of the source event.
C4_TrillFillsDuration ==
    (Succeeded /\ call.orn.kind \in TrillKinds) =>
        FScale(Len(call.out.pre) + (IF call.orn.nachschlag THEN 2 ELSE 0),
               call.out.useQL) = call.src.dur

\* C8: realize of a Mordent, Trill, Turn, Appoggiatura or Tremolo fails when
\* the source event has duration zero; it never returns a realization.
C8_ZeroDurationFails ==
    (Called /\ call.src.dur = Zero
        /\ call.orn.kind \in MordentKinds \cup TrillKinds \cup TurnKinds
                                 \cup AppoggiaturaKinds \cup {"Tremolo"})
    => call.out.err # ""

\* C9: the too-short error is raised only with autoScale off.  On a pitched
\* event of positive duration a Mordent, Trill or Turn (of positive
\* turnDuration) with autoScale on never fails and scales its sub-notes (Mordent to duration/4, Trill to duration/2
\* or duration/4 with nachschlag, Turn to turnDuration/4); with autoScale off
\* it fails exactly below its threshold (Mordent: duration <= 2*quarterLength;
\* Trill: duration < 2*quarterLength, or nachschlag and duration <
\* 4*quarterLength; Turn: turnDuration < 4*quarterLength).
C9_TooShortOnlyWithoutAutoScale ==
    LET o == call.orn
        d == call.src.dur
        ql == o.quarterLength
        err == call.out.err
        delay == CASE o.delay.kind = "NO_DELAY" -> Zero
                   [] o.delay.kind = "DEFAULT_DELAY" -> FDiv(d, FInt(2))
                   [] OTHER -> o.delay.ql
        turnDuration == FSub(d, delay)
        mordentBelow == FLe(d, FScale(2, ql))
        trillBelow == FLt(d, FScale(2, ql))
        nachschlagBelow == o.nachschlag /\ FLt(d, FScale(4, ql))
        turnBelow == FLt(turnDuration, FScale(4, ql))
        below == CASE o.kind \in MordentKinds -> mordentBelow
                   [] o.kind \in TrillKinds -> trillBelow \/ nachschlagBelow
                   [] OTHER -> turnBelow
    IN  /\ (Called /\ err = "tooShort") => ~o.autoScale
        /\ (Called /\ call.src.pitched /\ d # Zero
               /\ o.kind \in (MordentKinds \ {"GeneralMordent"}) \cup TrillKinds \cup TurnKinds)
           => IF o.autoScale
              THEN /\ (o.kind \in TurnKinds => FLt(Zero, turnDuration)) => err = ""
                   /\ (o.kind \in MordentKinds /\ mordentBelow)
                          => \A i \in 1..2 : call.out.pre[i].dur = FDiv(d, FInt(4))
                   /\ (o.kind \in TrillKinds /\ nachschlagBelow)
                          => /\ \A i \in 1..Len(call.out.pre) : call.out.pre[i].dur = FDiv(d, FInt(4))
                             /\ \A i \in 1..2 : call.out.post[i].dur = FDiv(d, FInt(4))
                   /\ (o.kind \in TrillKinds /\ trillBelow /\ ~nachschlagBelow)
                          => \A i \in 1..Len(call.out.pre) : call.out.pre[i].dur = FDiv(d, FInt(2))
                   /\ (o.kind \in TurnKinds /\ turnBelow /\ FLt(Zero, turnDuration))
                          => \A i \in 1..4 : call.out.post[i].dur = FDiv(turnDuration, FInt(4))
              ELSE (err = "tooShort" <=> below) /\ (~below => err = "")

\* a trill with nachschlag scaled down to a quarter of a short event
C9_Witness ==
    /\ Succeeded /\ call.orn.kind \in TrillKinds
    /\ call.orn.nachschlag /\ call.orn.autoScale
    /\ FLt(Zero, call.src.dur)
    /\ FLt(call.src.dur, FScale(4, call.orn.quarterLength))
    /\ Len(call.out.pre) = 2 /\ Len(call.out.post) = 2

---------------------------------------------------------------------------
(* Properties of the numberOfMarks setters (SpecTremolo).                  *)

Assigned == trem.last.target # "none"
StoredMarks == IF trem.last.target = "Tremolo" THEN trem.tremolo ELSE trem.spanner

\* C10: the numberOfMarks stored is always an integer in 0..8, and assigning
\* a value outside that range fails with the TremoloException and leaves the
\* stored value as it was.
C10_NumberOfMarksInRange ==
    /\ trem.tremolo \in 0..MaxNumberOfMarks
    /\ trem.spanner \in 0..MaxNumberOfMarks
    /\ (Assigned /\ trem.last.num.type \in {"int", "float"}
          /\ (FLt(trem.last.num.val, Zero) \/ FLt(FInt(MaxNumberOfMarks), trem.last.num.val)))
       => (trem.last.err = "TremoloException" /\ StoredMarks = trem.last.before)

---------------------------------------------------------------------------
(* Properties of realizeOrnaments (SpecDriver, FairSpecDriver).            *)

RECURSIVE PreNotes(_)
PreNotes(log) == IF log = <<>> THEN <<>> ELSE Head(log).pre \o PreNotes(Tail(log))
RECURSIVE PostNotes(_)
PostNotes(log) == IF log = <<>> THEN <<>> ELSE Head(log).post \o PostNotes(Tail(log))
ListReturned == ro.pc = "done"
ConsumedAt(i) == ro.log[i].realized /\ IsNone(ro.log[i].main)

\* C5: the list realizeOrnaments returns is, in this order, the pre-notes of
\* the realized ornaments in ornament order, the remaining event unless it is
\* None, and the post-notes of the realized ornaments in ornament order; the
\* ornaments are taken in the order of the event's expression list; an event
\* without expressions comes back alone in a one-element list.
C5_ResultOrder ==
    /\ \A i \in 1..Len(ro.log) : ro.log[i].expr = ro.input.exprs[i]
    /\ ListReturned =>
          IF ro.input.exprs = <<>>
          THEN ro.retList = <<ro.input>> /\ ro.caller = ro.input
          ELSE ro.retList = PreNotes(ro.log) \o ro.srcObject \o PostNotes(ro.log)

\* a mordent then a delayed turn: pre-notes, the remaining event and
\* post-notes are all in the list returned
C5_Witness ==
    /\ ListReturned
    /\ Len(ro.log) = 2 /\ ro.log[1].realized /\ ro.log[2].realized
    /\ PreNotes(ro.log) # <<>> /\ PostNotes(ro.log) # <<>>
    /\ ~IsNone(ro.srcObject)
    /\ Len(ro.retList) = Len(PreNotes(ro.log)) + 1 + Len(PostNotes(ro.log))

\* C6 (as stated): every call of realizeOrnaments ends by returning a result
\* list.
C6_AlwaysReturnsList == (ro.pc = "loop") ~> (ro.pc = "done")

\* C6: every call of realizeOrnaments ends, by returning a result list or by
\* passing on the error of a realize that failed; the loop is left only when
\* the remaining event has no expressions left, when a realize returned None
\* as main event, or when the ceiling of 100 iterations is used up, and it
\* never runs more than 100 iterations.
C6_Terminates ==
    /\ (ro.pc = "loop") ~> (ro.pc \in {"done", "raised"})
    /\ [](ro.loopBuster \in 0..LoopBuster /\ Len(ro.log) <= LoopBuster)
    /\ [](ro.pc = "exit" =>
            \/ IsNone(ro.srcObject)
            \/ ro.srcObject[1].exprs = <<>>
            \/ ro.loopBuster = 0)
    /\ [](ro.pc = "raised" => ro.err # "")

\* the ceiling ends the loop of an event that still has expressions
C6_Witness ==
    /\ ListReturned
    /\ ro.loopBuster = 0
    /\ ~IsNone(ro.srcObject) /\ ro.srcObject[1].exprs # <<>>
    /\ ro.retList = <<ro.srcObject[1]>>

\* C7: an ornament whose realize returns None as main event (a Trill, a
\* Tremolo, a Turn without delay) is the last one taken: the loop stops, no
\* later ornament is realized, and the list returned holds the pre-notes
\* followed by the post-notes, without a main event.
C7_StopsWhenConsumed ==
    \A i \in 1..Len(ro.log) :
        /\ (ro.log[i].realized
              /\ \/ ro.log[i].expr.kind \in TrillKinds \cup {"Tremolo"}
                 \/ ro.log[i].expr.kind \in TurnKinds /\ ro.log[i].expr.delay = NoDelay)
           => IsNone(ro.log[i].main)
        /\ ConsumedAt(i) =>
              /\ i = Len(ro.log)
              /\ ro.pc \in {"exit", "done"}
              /\ IsNone(ro.srcObject)
              /\ ListReturned => ro.retList = PreNotes(ro.log) \o PostNotes(ro.log)

\* a trill with nachschlag consumed the event while another ornament was
\* still waiting in the list
C7_Witness ==
    /\ ListReturned
    /\ Len(ro.log) = 1 /\ ConsumedAt(1)
    /\ Len(ro.input.exprs) = 2 /\ HasRealize(ro.input.exprs[2])
    /\ ro.log[1].pre # <<>> /\ ro.log[1].post # <<>>
    /\ Len(ro.retList) = Len(ro.log[1].pre) + Len(ro.log[1].post)

---------------------------------------------------------------------------
(* Further properties of a single realize call (SpecRealize).              *)

\* C11: Tremolo.realize on an event of positive duration d with m marks
\* returns (subNotes, None, []): every sub-note but the last lasts exactly
\* 2^(-m), the last lasts more than 0 and at most 2^(-m), the durations sum
\* exactly to d, and there are ceil(d / 2^(-m)) sub-notes.
C11_TremoloSubNotes ==
    (Succeeded /\ call.orn.kind = "Tremolo" /\ FLt(Zero, call.src.dur)) =>
        LET lengthOfEach == TwoToMinus(call.orn.numberOfMarks)
            subNotes == call.out.pre
            n == Len(subNotes)
        IN  /\ IsNone(call.out.main) /\ call.out.post = <<>>
            /\ n >= 1
            /\ \A i \in 1..(n - 1) : subNotes[i].dur = lengthOfEach
            /\ FLt(Zero, subNotes[n].dur) /\ FLe(subNotes[n].dur, lengthOfEach)
            \* the sum: n - 1 sub-notes of lengthOfEach and the last one
            /\ FAdd(FScale(n - 1, lengthOfEach), subNotes[n].dur) = call.src.dur
            /\ FLt(FScale(n - 1, lengthOfEach), call.src.dur)
            /\ FLe(call.src.dur, FScale(n, lengthOfEach))

\* three marks on a quarter note: eight sub-notes of 0.125
C11_Witness ==
    /\ Succeeded /\ call.orn.kind = "Tremolo"
    /\ call.orn.numberOfMarks = 3 /\ call.src.dur = FInt(1)
    /\ Len(call.out.pre) = 8
    /\ \A i \in 1..8 : call.out.pre[i].dur = Frac(1, 8)

\* C14: an appoggiatura with a direction, realized on a note of positive
\* duration d, returns ([grace], remainder, []): both last exactly d/2, the
\* remainder keeps the pitch and no longer lists the ornament, the grace note
\* lies at size from the pitch for direction 'down' and at the reverse of size
\* for 'up'; a GeneralAppoggiatura, having no direction, fails as unrealizable.
C14_AppoggiaturaHalves ==
    /\ (Called /\ call.orn.kind = "GeneralAppoggiatura") => call.out.err = "unrealizable"
    /\ (/\ Called /\ call.orn.kind \in AppoggiaturaKinds \ {"GeneralAppoggiatura"}
        /\ call.src.pitched /\ FLt(Zero, call.src.dur)) =>
          LET half == FDiv(call.src.dur, FInt(2))
              size == AppoggiaturaSize(call.orn.kind)
          IN  /\ call.out.err = ""
              /\ Len(call.out.pre) = 1 /\ call.out.post = <<>>
              /\ ~IsNone(call.out.main)
              /\ call.out.pre[1].dur = half /\ call.out.main[1].dur = half
              /\ FAdd(half, half) = call.src.dur
              /\ call.out.main[1].pitch = call.src.pitch
              /\ ~InExpressions(call.orn, call.out.main[1].exprs)
              /\ Interval(call.src.pitch, call.out.pre[1].pitch) =
                    IF AppoggiaturaDirection(call.orn.kind) = "down"
                    THEN size ELSE IntervalReverse(size)

\* an inverted half-step appoggiatura taken off a note that also has a fermata
C14_Witness ==
    /\ Succeeded /\ call.orn.kind = "HalfStepInvertedAppoggiatura"
    /\ Len(call.src.exprs) = 2 /\ Len(call.out.main[1].exprs) = 1
    /\ call.src.dur = Frac(1, 3) /\ call.out.pre[1].dur = Frac(1, 6)
    /\ PitchSpace(call.out.pre[1].pitch) = PitchSpace(call.src.pitch) - 1

---------------------------------------------------------------------------
(* Properties of realize under a key signature (SpecPitch).                *)

TurnCalled == Succeeded /\ call.orn.kind \in TurnKinds
\* the positions of the upper and of the lower neighbour among the turn notes
UpperAt == IF call.orn.kind = "InvertedTurn" THEN 3 ELSE 1
LowerAt == IF call.orn.kind = "InvertedTurn" THEN 1 ELSE 3

\* C12: a Turn realization has exactly four turn notes: for a Turn the upper
\* neighbour, the original, the lower neighbour, the original; for an
\* InvertedTurn the lower neighbour, the original, the upper neighbour, the
\* original; the second and the fourth have exactly the source pitch.
C12_TurnPitchOrder ==
    TurnCalled =>
        LET turnNotes == call.out.post
            src == call.src.pitch
        IN  /\ Len(turnNotes) = 4
            /\ call.out.pre = <<>>
            /\ DiatonicNum(turnNotes[UpperAt].pitch) = DiatonicNum(src) + 1
            /\ DiatonicNum(turnNotes[LowerAt].pitch) = DiatonicNum(src) - 1
            /\ turnNotes[2].pitch = src
            /\ turnNotes[4].pitch = src

\* an inverted turn on a note with a sharp: below first, then above
C12_Witness ==
    /\ TurnCalled /\ call.orn.kind = "InvertedTurn"
    /\ ~IsNone(call.src.pitch.acc)
    /\ DiatonicNum(call.out.post[1].pitch) < DiatonicNum(call.src.pitch)
    /\ DiatonicNum(call.out.post[3].pitch) > DiatonicNum(call.src.pitch)


\* Turn(delay=DEFAULT_DELAY), nothing else set, realized on a B4 quarter note
\* under a key signature of five sharps
TurnOnB4InFiveSharps ==
    /\ Called /\ call.orn.kind \in TurnKinds
    /\ call.orn = [Expression(call.orn.kind, 1) EXCEPT !.delay = DefaultDelay]
    /\ call.src.pitch = B4 /\ call.src.dur = FInt(1)
    /\ CurrentKeySig(call.keySig, call.src) = 5
\* the names of the turn notes and whether each lasts quarterLength
TurnNoteNames == [i \in 1..Len(call.out.post) |-> NameWithOctave(call.out.post[i].pitch)]
TurnNotesLast(quarterLength) ==
    \A i \in 1..Len(call.out.post) : call.out.post[i].dur = quarterLength
RemainderIsHalfB4 ==
    /\ call.out.err = "" /\ call.out.pre = <<>>
    /\ ~IsNone(call.out.main)
    /\ call.out.main[1].pitch = B4 /\ call.out.main[1].dur = Frac(1, 2)

\* C13 as stated: Turn(delay=DEFAULT_DELAY).realize on a B4 of quarter length
\* 1.0 in five sharps yields ([], B4 of 0.5, [A#4, B4, C#5, B4]), each turn
\* note lasting 0.25.
C13_TurnExampleAsStated ==
    (TurnOnB4InFiveSharps /\ call.orn.kind = "Turn") =>
        /\ RemainderIsHalfB4
        /\ TurnNoteNames = << <<5, 1, 4>>, <<6, 0, 4>>, <<0, 1, 5>>, <<6, 0, 4>> >>
        /\ TurnNotesLast(Frac(1, 4))

\* C13: Turn(delay=DEFAULT_DELAY).realize on a B4 of quarter length 1.0 in
\* five sharps yields ([], B4 of 0.5, [C#5, B4, A#4, B4]), each turn note
\* lasting 0.125; the order [A#4, B4, C#5, B4] is that of an InvertedTurn.
C13_TurnExample ==
    TurnOnB4InFiveSharps =>
        /\ RemainderIsHalfB4
        /\ TurnNoteNames =
              IF call.orn.kind = "Turn"
              THEN << <<0, 1, 5>>, <<6, 0, 4>>, <<5, 1, 4>>, <<6, 0, 4>> >>
              ELSE << <<5, 1, 4>>, <<6, 0, 4>>, <<0, 1, 5>>, <<6, 0, 4>> >>
        /\ TurnNotesLast(Frac(1, 8))

\* the call of the example, the key signature found in the context
C13_Witness ==
    /\ TurnOnB4InFiveSharps /\ call.orn.kind = "Turn"
    /\ IsNone(call.keySig) /\ call.src.ctxKey = Some(5)
    /\ Succeeded /\ Len(call.out.post) = 4

---------------------------------------------------------------------------
(* Properties of getSize (SpecGetSize).                                    *)

SizeAsked == call.op = "getSize"
\* getSize asked of a mordent of class kind for a C4 under a key signature
\* without sharps or flats
SizeAskedOnC4(kind) ==
    /\ SizeAsked /\ call.orn.kind = kind
    /\ call.src.pitched /\ call.src.pitch = C4
    /\ CurrentKeySig(call.keySig, call.src) = 0
SizeGiven(generic, semitones) ==
    /\ call.out.err = ""
    /\ call.out.size = [generic |-> generic, semitones |-> semitones]

\* C15 as stated: GeneralMordent().getSize on a C4 with no explicit accidental
\* and a zero-sharps key signature yields a minor second down, and with
\* accidentalName='flat' a major second down.
C15_GeneralMordentSizeAsStated ==
    SizeAskedOnC4("GeneralMordent") =>
        /\ call.orn.accidentalName = "" => SizeGiven(-1, -1)
        /\ call.orn.accidentalName = "flat" => SizeGiven(-1, -2)

\* C15: Mordent().getSize on a C4 with no explicit accidental and a
\* zero-sharps key signature yields a minor second down, and with
\* accidentalName='flat' a major second down; an explicit accidental decides
\* the lower step of C4 under every key signature; GeneralMordent() itself,
\* having no direction, fails as unrealizable.
C15_MordentSize ==
    /\ SizeAskedOnC4("Mordent") =>
          /\ call.orn.accidentalName = "" => SizeGiven(-1, -1)
          /\ call.orn.accidentalName = "flat" => SizeGiven(-1, -2)
    /\ (/\ SizeAsked /\ call.orn.kind = "Mordent" /\ call.src.pitched
        /\ call.src.pitch = C4 /\ call.orn.accidentalName # "") =>
          SizeGiven(-1, -1 + Accidental(call.orn.accidentalName)[1])
    /\ (SizeAsked /\ call.orn.kind = "GeneralMordent") => call.out.err = "unrealizable"

\* a flat on the mordent wins over a key signature that leaves B natural
C15_Witness ==
    /\ SizeAskedOnC4("Mordent") /\ call.orn.accidentalName = "flat"
    /\ call.keySig = Some(0) /\ call.src.ctxKey = Some(-1)
    /\ SizeGiven(-1, -2)


\* C16: getSize of every mordent, trill and turn class fails with a TypeError
\* whenever the source event has no pitch.
C16_GetSizeFailsUnpitched ==
    (SizeAsked /\ ~call.src.pitched) => call.out.err = "unpitched"

\* a fixed-interval class answers for a rest
C16_Witness ==
    /\ SizeAsked /\ ~call.src.pitched
    /\ call.orn.kind = "HalfStepMordent"
    /\ SizeGiven(-1, -1)

---------------------------------------------------------------------------
(* Properties of one ornament object (SpecDisplay).                        *)

\* the i-th ornamental pitch is governed by an explicit accidental name
ForcedAt(i) == AccidentalNamesOf(orn.o)[i] # ""
\* the i-th ornamental pitch has an accidental, and it is displayed
VisibleAt(i) ==
    /\ ~IsNone(orn.ornamentalPitches[i].pitch.acc)
    /\ orn.ornamentalPitches[i].displayStatus = "True"

\* C17: after ornamental pitches are resolved on a Mordent, Trill or Turn
\* with an explicit accidental name, the pitch that name governs has an
\* accidental whose display status is visible, and no updateAccidentalDisplay
\* call, whatever Pitch.updateAccidentalDisplay decides for other pitches,
\* changes that.
C17_ForcedStaysVisible ==
    /\ [](orn.last = "resolve" /\ orn.err = "" =>
             \A i \in 1..Len(orn.ornamentalPitches) : ForcedAt(i) => VisibleAt(i))
    /\ [][orn'.last = "update" =>
             \A i \in 1..Len(orn.ornamentalPitches) :
                 (ForcedAt(i) /\ VisibleAt(i)) => VisibleAt(i)']_vars

\* a turn with a sharp above: after an update its upper pitch is still
\* displayed while the display of its lower pitch was turned off
C17_Witness ==
    /\ orn.last = "update" /\ orn.o.kind = "Turn"
    /\ Len(orn.ornamentalPitches) = 2
    /\ ForcedAt(1) /\ VisibleAt(1)
    /\ ~ForcedAt(2) /\ orn.ornamentalPitches[2].displayStatus = "False"


\* C18: an invalid accidental name assigned to a Mordent, Trill or Turn
\* raises an error at the assignment; it is never replaced by another value.
C18_InvalidNameRaises ==
    (orn.last = "set" /\ orn.arg \notin AccidentalNames \cup {""}) => orn.err # ""

\* an invalid name was assigned to a Trill: nothing raised, '' is stored
C18_Witness ==
    /\ orn.last = "set" /\ orn.arg = "bogus" /\ orn.o.kind = "Trill"
    /\ orn.err = "" /\ orn.o.accidentalName = ""


\* what a realization shows: the error, and pitch and duration of each note
NotesShown(notes) == [i \in 1..Len(notes) |-> <<notes[i].pitch, notes[i].dur>>]
RealizationShown(out) ==
    [err |-> out.err, pre |-> NotesShown(out.pre), main |-> NotesShown(out.main),
     post |-> NotesShown(out.post)]

\* C19: with keySig passed explicitly to realize (Mordent, Trill, Turn), the
\* key signature of the event's context is not consulted: the same event in
\* any other context, realized under the same keySig, gives the same notes.
C19_ExplicitKeySigDecides ==
    (Called /\ ~IsNone(call.keySig)) =>
        \A ctxKey \in OptKeySigs :
            RealizationShown(Realize(call.orn, [call.src EXCEPT !.ctxKey = ctxKey],
                                     call.keySig, call.inPlace))
                = RealizationShown(call.out)

\* a turn on B4 realized under an explicit key signature without sharps, in a
\* context of five sharps: its neighbours carry the sharps of the context
C19_Witness ==
    /\ Succeeded /\ call.orn = Expression("Turn", 1)
    /\ call.src.pitch = B4
    /\ call.keySig = Some(0) /\ call.src.ctxKey = Some(5)
    /\ NameWithOctave(call.out.post[1].pitch) = <<0, 1, 5>>
    /\ NameWithOctave(call.out.post[3].pitch) = <<5, 1, 4>>


\* C20: realize never changes the ornament it is called on: whether it
\* returns or raises, in place or not, scaled or not, quarterLength,
\* autoScale, the accidental names, delay, nachschlag, numberOfMarks and the
\* cached ornamental pitches are what they were before the call.
C20_RealizeLeavesOrnament ==
    [][orn'.last = "realize" =>
          /\ orn'.o = orn.o
          /\ orn'.ornamentalPitches = orn.ornamentalPitches]_vars

\* a mordent with an accidental name and a resolved pitch, whose realize on a
\* quarter note raised nothing
C20_Witness ==
    /\ orn.last = "realize" /\ orn.err = ""
    /\ orn.o.kind = "Mordent" /\ orn.o.accidentalName = "sharp"
    /\ Len(orn.ornamentalPitches) = 1

---------------------------------------------------------------------------
(* Properties of a single realize call, continued (SpecRealize).           *)

\* C21: Turn.realize on an event of positive duration returns None as main
\* event exactly when the turn is not delayed (NO_DELAY, which every
\* non-positive numeric delay has become in the setter); otherwise the main
\* event lasts the delay (half the source duration for DEFAULT_DELAY, the
\* explicit quarter length otherwise) and no longer lists the turn.
C21_TurnMainEvent ==
    (Succeeded /\ call.orn.kind \in TurnKinds /\ FLt(Zero, call.src.dur)) =>
        LET delay == call.orn.delay
        IN  /\ (delay.kind \notin {"NO_DELAY", "DEFAULT_DELAY"}) => FLt(Zero, delay.ql)
            /\ IsNone(call.out.main) <=> delay.kind = "NO_DELAY"
            /\ delay.kind # "NO_DELAY" =>
                  /\ call.out.main[1].dur =
                        IF delay.kind = "DEFAULT_DELAY" THEN FDiv(call.src.dur, FInt(2))
                        ELSE delay.ql
                  /\ ~InExpressions(call.orn, call.out.main[1].exprs)

\* a turn given the int 0 as delay: the setter kept the 0, so the turn counts
\* as delayed, and realize returns no main event
C21_Witness ==
    /\ Succeeded /\ call.orn.kind = "Turn" /\ FLt(Zero, call.src.dur)
    /\ call.orn.delay.kind = "int" /\ call.orn.delay.ql = Zero
    /\ IsNone(call.out.main)
    /\ Len(call.out.post) = 4

---------------------------------------------------------------------------
(* The original note in a trill (SpecPitch).                               *)

TrillCalled == Succeeded /\ call.orn.kind \in TrillKinds

\* C22: Trill.realize never corrects the original note: under any key
\* signature, the first note of every alternation pair and the first
\* nachschlag note have exactly the pitch of the source event, accidental
\* included.
C22_TrillKeepsOriginalNote ==
    TrillCalled =>
        /\ \A i \in 1..Len(call.out.pre) :
              i % 2 = 1 => call.out.pre[i].pitch = call.src.pitch
        /\ call.out.post # <<>> => call.out.post[1].pitch = call.src.pitch

\* a trill with nachschlag on C#4 without any key signature: the alternation
\* starts on C#4, the nachschlag on C natural
C22_Witness ==
    /\ TrillCalled /\ call.orn.kind = "Trill" /\ call.orn.nachschlag
    /\ call.src.pitch = Pitch(0, 4, Some(1))
    /\ IsNone(call.keySig) /\ IsNone(call.src.ctxKey)
    /\ call.out.pre[1].pitch = call.src.pitch
    /\ call.out.post[1].pitch = C4

---------------------------------------------------------------------------
(* inPlace and trills (SpecRealize).                                       *)

\* C23: inPlace is not used for Trills: a Trill.realize call with
\* inPlace=True leaves the source event (duration, pitch, expression list)
\* unchanged, as the call with inPlace=False does, and returns the same
\* result.
C23_TrillIgnoresInPlace ==
    (Called /\ call.orn.kind \in TrillKinds /\ call.inPlace) =>
        /\ call.out.src = call.src
        /\ call.out = TrillRealize(call.orn, call.src, call.keySig, FALSE)

\* an in-place trill on a note carrying a fermata and the trill: the notes are
\* those of the out-of-place call, and the note is left with the fermata alone
C23_Witness ==
    /\ Succeeded /\ call.orn.kind = "Trill" /\ call.inPlace
    /\ Len(call.src.exprs) = 2
    /\ InExpressions(call.orn, call.src.exprs)
    /\ ~InExpressions(call.orn, call.out.src.exprs)
    /\ Len(call.out.src.exprs) = 1
    /\ call.out.pre = TrillRealize(call.orn, call.src, call.keySig, FALSE).pre

---------------------------------------------------------------------------
(* Fixed-interval trills and the key signature (SpecPitch).                *)

FixedTrillCalled == Called /\ call.orn.kind \in {"HalfStepTrill", "WholeStepTrill"}

\* C24: for HalfStepTrill and WholeStepTrill the key signature does not
\* affect the realization: getSize returns the same constant interval for
\* every source event and key signature, accidentalName is empty, and realize
\* of the same event under any two key signatures, explicit or contextual,
\* with or without nachschlag, yields notes of identical pitches and
\* durations.
C24_FixedTrillIgnoresKeySig ==
    FixedTrillCalled =>
        /\ \A keySig \in OptKeySigs : \A ctxKey \in OptKeySigs :
              RealizationShown(Realize(call.orn, [call.src EXCEPT !.ctxKey = ctxKey],
                                       keySig, call.inPlace))
                  = RealizationShown(call.out)
        /\ \A keySig \in OptKeySigs : \A ctxKey \in OptKeySigs :
           \A p \in PitchInputs : \A pitched \in BOOLEAN :
              TrillGetSize(call.orn, Event(call.src.dur, pitched, p, <<>>, ctxKey), keySig)
                  = SizeIs(IF call.orn.kind = "HalfStepTrill" THEN MinorSecond
                           ELSE MajorSecond)
        /\ call.orn.accidentalName = ""

\* a half-step trill with nachschlag on B4 in a context of five sharps: B4 and
\* C5 alternate, and the nachschlag is B4, A#4
C24_Witness ==
    /\ FixedTrillCalled /\ call.out.err = ""
    /\ call.orn.kind = "HalfStepTrill" /\ call.orn.nachschlag
    /\ call.src.pitch = B4
    /\ IsNone(call.keySig) /\ call.src.ctxKey = Some(MaxSharps)
    /\ NameWithOctave(call.out.pre[2].pitch) = <<0, 0, 5>>
    /\ call.out.post[1].pitch = B4
    /\ NameWithOctave(call.out.post[2].pitch) = <<5, 1, 4>>

---------------------------------------------------------------------------
(* What realizeOrnaments leaves on the remaining event (SpecDriver).       *)

\* C25: every iteration of the realizeOrnaments loop either consumes the
\* event or shortens the expression list of the remaining event by exactly
\* one, so a remaining event that realizeOrnaments returns has an empty
\* expression list, whatever the length of the input list.
C25_NothingLeftUnprocessed ==
    /\ (ro.pc \in {"loop", "exit"} /\ ~IsNone(ro.srcObject)) =>
          Len(ro.srcObject[1].exprs) = Len(ro.input.exprs) - Len(ro.log)
    /\ (ListReturned /\ ~IsNone(ro.srcObject)) => ro.srcObject[1].exprs = <<>>

\* an event with one expression more than the ceiling: every iteration took
\* one expression, and the event returned still carries the last one
C25_Witness ==
    /\ ListReturned
    /\ Len(ro.input.exprs) = LoopBuster + 1
    /\ Len(ro.log) = LoopBuster
    /\ ~IsNone(ro.srcObject)
    /\ ro.srcObject[1].exprs = <<ro.input.exprs[LoopBuster + 1]>>
    /\ ro.retList = <<ro.srcObject[1]>>

---------------------------------------------------------------------------
(* The caller's event under realizeOrnaments (SpecDriver).                 *)

\* C26: realizeOrnaments never modifies the event passed to it: during and
\* after the call the caller's event has the duration, pitch and ordered
\* expression list it had before, whether its expressions are realizable
\* ornaments, expressions that cannot be realized, or a mix in any order.
C26_CallerEventUntouched ==
    ro.pc # "idle" => ro.caller = ro.input

\* a fermata followed by a mordent: the list is returned, and the caller's
\* note has lost its fermata
C26_Witness ==
    /\ ListReturned
    /\ Len(ro.input.exprs) = 2
    /\ ~HasRealize(ro.input.exprs[1]) /\ ro.input.exprs[2].kind = "Mordent"
    /\ ro.log[2].realized /\ ~IsNone(ro.log[2].main)
    /\ ro.caller.exprs = <<ro.input.exprs[2]>>
    /\ ro.caller.dur = ro.input.dur

---------------------------------------------------------------------------
(* Durations of the notes returned (SpecRealize).                          *)

\* C27: for every successful realize of any variant on an event of positive
\* duration, with every positive quarterLength and every delay setting, each
\* returned note (pre-notes, the main event unless None, post-notes) has a
\* strictly positive duration.
C27_ReturnedDurationsPositive ==
    (Succeeded /\ FLt(Zero, call.src.dur) /\ FLt(Zero, call.orn.quarterLength)) =>
        \A notes \in {call.out.pre, call.out.main, call.out.post} :
            \A i \in 1..Len(notes) : FLt(Zero, notes[i].dur)

\* a turn delayed by the whole duration of its note: four turn notes of
\* duration zero after a remainder event as long as the note
C27_Witness ==
    /\ Succeeded /\ call.orn.kind = "Turn" /\ FLt(Zero, call.src.dur)
    /\ call.orn.delay = DelayQL(call.src.dur)
    /\ ~IsNone(call.out.main) /\ call.out.main[1].dur = call.src.dur
    /\ Len(call.out.post) = 4
    /\ \A i \in 1..4 : call.out.post[i].dur = Zero

---------------------------------------------------------------------------
(* Expressions of the notes returned (SpecRealize).                        *)

\* C28: every note in the pre-list and the post-list returned by a realize
\* (Mordent sub-notes, Trill alternation and nachschlag notes, Turn notes,
\* the Appoggiatura grace note) has an empty expression list.
C28_SubNotesCarryNothing ==
    (Succeeded /\ call.orn.kind \in MordentKinds \cup TrillKinds \cup TurnKinds
                                        \cup AppoggiaturaKinds) =>
        \A notes \in {call.out.pre, call.out.post} :
            \A i \in 1..Len(notes) : notes[i].exprs = <<>>

\* a mordent attached to its note: both sub-notes carry the mordent, while the
\* remainder event has lost it
C28_Witness ==
    /\ Succeeded /\ call.orn.kind = "Mordent"
    /\ call.src.exprs = <<call.orn>>
    /\ Len(call.out.pre) = 2
    /\ call.out.pre[1].exprs = <<call.orn>> /\ call.out.pre[2].exprs = <<call.orn>>
    /\ call.out.main[1].exprs = <<>>

---------------------------------------------------------------------------
(* The source event after a failed realize (SpecRealize).                  *)

RealizeFailed ==
    /\ Called /\ call.out.err # ""
    /\ call.orn.kind \in MordentKinds \cup TrillKinds \cup TurnKinds \cup AppoggiaturaKinds

\* C29: when realize of a Mordent, Trill, Turn or Appoggiatura fails with any
\* error, the source event has the duration, pitch and expression list it
\* had before the call, also when the call was made with inPlace=True.
C29_FailureLeavesSource ==
    RealizeFailed =>
        /\ call.out.src = call.src
        /\ call.out.pre = <<>> /\ IsNone(call.out.main) /\ call.out.post = <<>>

\* an in-place turn without autoScale on a note too short for it, which
\* carries a fermata and the turn: the note keeps both
C29_Witness ==
    /\ RealizeFailed /\ call.inPlace
    /\ call.orn.kind = "Turn" /\ call.out.err = "tooShort"
    /\ Len(call.src.exprs) = 2 /\ InExpressions(call.orn, call.src.exprs)
    /\ FLt(Zero, call.src.dur)
    /\ call.out.src.exprs = call.src.exprs

---------------------------------------------------------------------------
(* Durations of the list realizeOrnaments returns (SpecDriver).            *)

SumInScope ==
    /\ FLt(Zero, ro.input.dur)
    /\ ro.input.exprs # <<>>
    /\ \A i \in 1..Len(ro.input.exprs) :
          LET e == ro.input.exprs[i]
          IN  /\ e.kind \in MordentKinds \cup AppoggiaturaKinds \cup TurnKinds \cup {"Tremolo"}
              /\ e.autoScale
              /\ e.kind \in TurnKinds => e.delay \in {NoDelay, DefaultDelay}

\* C30: for an event of positive duration whose expressions are any sequence
\* of Mordent, Appoggiatura, Tremolo and Turn (NO_DELAY or DEFAULT_DELAY)
\* variants with autoScale enabled, the durations of all notes in the list
\* realizeOrnaments returns sum exactly to the duration the event had.
C30_RealizeOrnamentsKeepsDuration ==
    (ListReturned /\ SumInScope) => FSum(DurationsOf(ro.retList)) = ro.input.dur

\* a mordent then a turn with the default delay: two mordent notes, the
\* remaining event and four turn notes share the duration of the event
C30_Witness ==
    /\ ListReturned /\ SumInScope
    /\ Len(ro.input.exprs) = 2
    /\ ro.input.exprs[1].kind = "Mordent"
    /\ ro.input.exprs[2].kind = "Turn" /\ ro.input.exprs[2].delay = DefaultDelay
    /\ Len(ro.retList) = 7
    /\ ~IsNone(ro.srcObject) /\ ro.retList[3] = ro.srcObject[1]
    /\ FLt(ro.retList[3].dur, ro.input.dur)
    /\ FSum(DurationsOf(ro.retList)) = ro.input.dur

===========================================================================
